---------------------------- MODULE Spec2Model ----------------------------
(***************************************************************************)
(* A model of fileseq (src/src/fileseq/all.py): the FrameSet frame-range   *)
(* parser, framesToFrameRange (the range compactor) and the FileSequence   *)
(* setters.  Strings are sequences of one-character strings, so that       *)
(* formatting and parsing are modelled character by character.             *)
(***************************************************************************)
EXTENDS Integers, Sequences, FiniteSets, TLC

VARIABLES
    op,          \* the last call made by the caller ("init" before any call)
    args,        \* the arguments of that call
    raised,      \* the exception that call raised, "none" when it returned
    result,      \* the value that call returned
    expr,        \* the range expression handed to FrameSet(...)
    frameSet,    \* the FrameSet under test (None when none was constructed)
    normalized,  \* the FrameSet returned by the last normalize() call
    frames,      \* a caller-owned list handed to framesToFrameRange
    fileSeq      \* the FileSequence under test (None when none was constructed)

vars == <<op, args, raised, result, expr, frameSet, normalized, frames, fileSeq>>

(***************************************************************************)
(* Bounds of the model.                                                    *)
(***************************************************************************)
MaxFrame == 3      \* largest frame number written in a range expression
MaxNeg == 2        \* range expressions use frame numbers down to -MaxNeg
MaxChunk == 2      \* largest chunk written after x, y or :
MaxValue == 6      \* largest value in a list handed to framesToFrameRange
MaxPadLen == 2     \* longest padding string handed to setPadding

(***************************************************************************)
(* Python values.                                                          *)
(***************************************************************************)
None == [none |-> TRUE]

Digit == <<"0", "1", "2", "3", "4", "5", "6", "7", "8", "9">>

IsDigit(c) == \E d \in 1..10 : Digit[d] = c

DigitValue(c) == (CHOOSE d \in 1..10 : Digit[d] = c) - 1

RECURSIVE Digits(_)
\* the decimal digits of n >= 0
Digits(n) ==
    IF n < 10 THEN <<Digit[n + 1]>>
    ELSE Digits(n \div 10) \o <<Digit[(n % 10) + 1]>>

\* str(n) and "%d" % n
Str(n) == IF n < 0 THEN <<"-">> \o Digits(-n) ELSE Digits(n)

RECURSIVE Repeat(_, _)
\* c * n
Repeat(c, n) == IF n <= 0 THEN <<>> ELSE <<c>> \o Repeat(c, n - 1)

\* format(n, "0%dd" % zfill): sign-aware zero padding to width zfill
Format(n, zfill) ==
    LET d == Digits(IF n < 0 THEN -n ELSE n)
        sign == IF n < 0 THEN <<"-">> ELSE <<>>
    IN  sign \o Repeat("0", zfill - Len(sign) - Len(d)) \o d

\* str.zfill(s, width)
StrZfill(s, width) ==
    IF Len(s) >= width THEN s
    ELSE IF Len(s) > 0 /\ s[1] \in {"+", "-"}
         THEN <<s[1]>> \o Repeat("0", width - Len(s)) \o Tail(s)
         ELSE Repeat("0", width - Len(s)) \o s

RECURSIVE DigitsToNat(_, _)
DigitsToNat(s, acc) ==
    IF s = <<>> THEN acc
    ELSE DigitsToNat(Tail(s), 10 * acc + DigitValue(Head(s)))

\* int(s) for s matching -?[0-9]+
Int_(s) ==
    IF s[1] = "-" THEN 0 - DigitsToNat(Tail(s), 0) ELSE DigitsToNat(s, 0)

RECURSIVE SplitFrom(_, _, _)
SplitFrom(s, sep, cur) ==
    IF s = <<>> THEN <<cur>>
    ELSE IF Head(s) = sep THEN <<cur>> \o SplitFrom(Tail(s), sep, <<>>)
         ELSE SplitFrom(Tail(s), sep, Append(cur, Head(s)))

\* s.split(sep) for a one-character separator
Split(s, sep) == SplitFrom(s, sep, <<>>)

RECURSIVE Join(_, _)
\* sep.join(parts)
Join(parts, sep) ==
    IF parts = <<>> THEN <<>>
    ELSE IF Len(parts) = 1 THEN parts[1]
         ELSE parts[1] \o sep \o Join(Tail(parts), sep)

Slice(s, from, to) == SubSeq(s, from, to)

Elements(s) == { s[i] : i \in 1..Len(s) }

\* xrange(start, stop, step) for step # 0
XRange(start, stop, step) ==
    LET n == IF step > 0
             THEN (IF stop > start THEN (stop - start + step - 1) \div step ELSE 0)
             ELSE (IF start > stop THEN (start - stop - step - 1) \div (0 - step) ELSE 0)
    IN  [i \in 1..n |-> start + (i - 1) * step]

\* list.sort() on integers
Sorted(s) == SortSeq(s, LAMBDA a, b : a < b)

RECURSIVE SortedList(_)
\* sorted(S) for a set of integers
SortedList(S) ==
    IF S = {} THEN <<>>
    ELSE LET m == CHOOSE a \in S : \A b \in S : a <= b
         IN  <<m>> \o SortedList(S \ {m})

(***************************************************************************)
(* _PATTERNS: the three frame-range token shapes.                          *)
(***************************************************************************)
RECURSIVE DigitsEnd(_, _)
\* the position after the longest run of digits of s starting at i
DigitsEnd(s, i) ==
    IF i <= Len(s) /\ IsDigit(s[i]) THEN DigitsEnd(s, i + 1) ELSE i

\* the position after \-?[0-9]+ matched at i, 0 when it does not match
SignedEnd(s, i) ==
    LET j == IF i <= Len(s) /\ s[i] = "-" THEN i + 1 ELSE i
        e == DigitsEnd(s, j)
    IN  IF e > j THEN e ELSE 0

\* the position after [0-9]+ matched at i, 0 when it does not match
UnsignedEnd(s, i) ==
    LET e == DigitsEnd(s, i) IN IF e > i THEN e ELSE 0

NoMatch == <<>>

\* ^(\-?[0-9]+)\-(\-?[0-9]+)$ : the groups, NoMatch when it does not match
MatchRange(part) ==
    LET e1 == SignedEnd(part, 1)
        e2 == IF e1 > 0 /\ e1 <= Len(part) /\ part[e1] = "-"
              THEN SignedEnd(part, e1 + 1) ELSE 0
    IN  IF e2 = Len(part) + 1
        THEN <<Slice(part, 1, e1 - 1), Slice(part, e1 + 1, e2 - 1)>>
        ELSE NoMatch

\* ^(\-?[0-9]+)$
MatchSingle(part) ==
    IF SignedEnd(part, 1) = Len(part) + 1 THEN <<part>> ELSE NoMatch

\* ^(\-?[0-9]+)\-(\-?[0-9]+)([:xy]{1})([0-9]+)$
MatchStepped(part) ==
    LET e1 == SignedEnd(part, 1)
        e2 == IF e1 > 0 /\ e1 <= Len(part) /\ part[e1] = "-"
              THEN SignedEnd(part, e1 + 1) ELSE 0
        e3 == IF e2 > 0 /\ e2 <= Len(part) /\ part[e2] \in {":", "x", "y"}
              THEN UnsignedEnd(part, e2 + 1) ELSE 0
    IN  IF e3 = Len(part) + 1
        THEN <<Slice(part, 1, e1 - 1), Slice(part, e1 + 1, e2 - 1),
               <<part[e2]>>, Slice(part, e2 + 1, e3 - 1)>>
        ELSE NoMatch

\* the first of _PATTERNS that matches part, in list order
FirstMatch(part) ==
    IF MatchRange(part) # NoMatch THEN MatchRange(part)
    ELSE IF MatchSingle(part) # NoMatch THEN MatchSingle(part)
    ELSE MatchStepped(part)

(***************************************************************************)
(* FrameSet construction.                                                  *)
(***************************************************************************)
\* FrameSet.__addFrames without the membership filter
AddFramesUnfiltered(self, fr) ==
    IF fr = <<>> THEN self
    ELSE [self EXCEPT !.set = self.set \cup Elements(fr), !.list = self.list \o fr]

\* FrameSet.__addFrames
AddFrames(self, fr) ==
    LET f == SelectSeq(fr, LAMBDA v : v \notin self.set)
    IN  IF f = <<>> THEN self
        ELSE [self EXCEPT !.set = self.set \cup Elements(f), !.list = self.list \o f]

\* xrange(start, end) : the end frame left out
PlainFramesExclusive(start, end) == XRange(start, end, 1)

\* xrange(int(groups[0]), int(groups[1])+1)
PlainFrames(start, end) == XRange(start, end + 1, 1)

\* xrange(chunk, 1, -1) : the final stride-1 pass left out
StaggersWithoutLast(chunk) == XRange(chunk, 1, -1)

\* xrange(chunk, 0, -1)
Staggers(chunk) == XRange(chunk, 0, -1)

RECURSIVE AddStaggered(_, _, _, _)
\* for stagger in xrange(chunk, 0, -1): self.__addFrames(xrange(start, end+1, stagger))
AddStaggered(self, start, end, staggers) ==
    IF staggers = <<>> THEN self
    ELSE AddStaggered(AddFrames(self, XRange(start, end + 1, Head(staggers))),
                      start, end, Tail(staggers))

\* FrameSet.__handleMatch: self with the frames of one matched token added;
\* self.raised names the exception when the call raises
HandleMatch(self, groups) ==
    IF Len(groups) = 2
    THEN AddFrames(self, PlainFrames(Int_(groups[1]), Int_(groups[2])))
    ELSE IF Len(groups) = 1
    THEN AddFrames(self, <<Int_(groups[1])>>)
    ELSE LET chunk == Int_(groups[4])
             \* chunk == 0 builds a ParseException and drops it: nothing is raised
             start == Int_(groups[1])
             end == Int_(groups[2])
             modifier == groups[3]
         IN  IF modifier = <<"x">>
             THEN IF chunk = 0 THEN [self EXCEPT !.raised = "ValueError"]
                  ELSE AddFrames(self, XRange(start, end + 1, chunk))
             ELSE IF modifier = <<":">>
             THEN AddStaggered(self, start, end, Staggers(chunk))
             ELSE IF chunk = 0 THEN [self EXCEPT !.raised = "ValueError"]
                  ELSE LET not_good == Elements(XRange(start, end + 1, chunk))
                       IN  AddFrames(self, SelectSeq(XRange(start, end + 1, 1),
                                                     LAMBDA f : f \notin not_good))

RECURSIVE HandleParts(_, _)
\* the loop of FrameSet.__init__ over frange.split(",")
HandleParts(self, parts) ==
    IF parts = <<>> \/ self.raised # "none" THEN self
    ELSE LET groups == FirstMatch(Head(parts))
         IN  IF groups = NoMatch THEN [self EXCEPT !.raised = "ParseException"]
             ELSE HandleParts(HandleMatch(self, groups), Tail(parts))

\* FrameSet(frange): the object built, with raised # "none" when __init__ raises
NewFrameSet(frange) ==
    HandleParts([frange |-> frange, set |-> {}, list |-> <<>>, raised |-> "none"],
                Split(frange, ","))

(***************************************************************************)
(* Range expressions used as inputs.                                       *)
(***************************************************************************)
Nums == (0 - MaxNeg)..MaxFrame

SingleToken(n) == Str(n)

RangeToken(s, e) == Str(s) \o <<"-">> \o Str(e)

SteppedToken(s, e, m, c) == Str(s) \o <<"-">> \o Str(e) \o <<m>> \o Str(c)

Modifiers == {"x", "y", ":"}

Singles == { SingleToken(n) : n \in Nums }

Tokens ==
    Singles
    \cup { RangeToken(s, e) : s \in Nums, e \in Nums }
    \cup { SteppedToken(s, e, m, c) : s \in Nums, e \in Nums, m \in Modifiers, c \in 0..MaxChunk }

\* text that none of _PATTERNS accepts as a token
Malformed ==
    { <<>>, <<"1", "-", "5", "-", "1", "0">>, <<"1", " ", "-", "2">>, <<"1", "x", "2">>,
      <<"1", "-", "3", "x">>, <<"1", "-">>, <<"-">>, <<"1", "-", "3", "x", "-", "1">> }

ForwardPairs == { p \in Nums \X Nums : p[1] <= p[2] }

\* the tokens whose start does not exceed their end
ForwardTokens ==
    Singles
    \cup { RangeToken(p[1], p[2]) : p \in ForwardPairs }
    \cup { SteppedToken(p[1], p[2], m, c) : p \in ForwardPairs, m \in Modifiers, c \in 0..MaxChunk }

ParseExprs ==
    Tokens
    \cup { Join(<<t1, t2>>, <<",">>) : t1 \in ForwardTokens, t2 \in ForwardTokens }
    \cup Malformed
    \cup { Join(<<t, b>>, <<",">>) : t \in Singles, b \in Malformed }

(***************************************************************************)
(* SpecParse: FrameSet(expr) for every expression of ParseExprs.           *)
(***************************************************************************)
InitParse ==
    /\ op = "init"
    /\ args = <<>>
    /\ raised = "none"
    /\ result = None
    /\ expr \in ParseExprs
    /\ frameSet = None
    /\ normalized = None
    /\ frames = <<>>
    /\ fileSeq = None

\* the caller evaluates FrameSet(expr)
Construct ==
    /\ op = "init"
    /\ LET fs == NewFrameSet(expr)
       IN  /\ raised' = fs.raised
           /\ frameSet' = IF fs.raised = "none" THEN fs ELSE None
    /\ op' = "FrameSet"
    /\ args' = <<expr>>
    /\ UNCHANGED <<result, expr, normalized, frames, fileSeq>>

NextParse == Construct

SpecParse == InitParse /\ [][NextParse]_vars

(***************************************************************************)
(* framesToFrameRange and padFrameRange.                                   *)
(***************************************************************************)
\* append with a pair of consecutive frames rendered as a dash range
appendPairAsRange(res, start, end, chunk, count, zfill) ==
    IF count = 1 \/ start = end
    THEN Append(res, Format(start, zfill))
    ELSE IF chunk > 1 /\ count > 2
    THEN Append(res, Format(start, zfill) \o <<"-">> \o Format(end, zfill) \o <<"x">> \o Str(chunk))
    ELSE IF count >= 2 /\ chunk = 1
    THEN Append(res, Join(<<Format(start, zfill), Format(end, zfill)>>, <<"-">>))
    ELSE Append(res, Join(<<Format(start, zfill), Format(end, zfill)>>, <<",">>))

\* the inner function append(start, end, chunk, count) of framesToFrameRange:
\* res with the rendering of one run added
append(res, start, end, chunk, count, zfill) ==
    IF count = 1 \/ start = end
    THEN Append(res, Format(start, zfill))
    ELSE IF chunk > 1 /\ count > 2
    THEN Append(res, Format(start, zfill) \o <<"-">> \o Format(end, zfill) \o <<"x">> \o Str(chunk))
    ELSE IF count > 2
    THEN Append(res, Join(<<Format(start, zfill), Format(end, zfill)>>, <<"-">>))
    ELSE Append(res, Join(<<Format(start, zfill), Format(end, zfill)>>, <<",">>))

RECURSIVE ScanFrames(_, _, _, _, _, _)
\* the loop "for num, frame in enumerate(frames)" from index num (1-based) on,
\* with the loop's start, count and result; the final result list
ScanFrames(fr, num, start, count, res, zfill) ==
    IF num > Len(fr) THEN res
    ELSE IF fr[num] = start THEN ScanFrames(fr, num + 1, start, count, res, zfill)
    ELSE LET a_fr == fr[IF num = 1 THEN Len(fr) ELSE num - 1]
             b_fr == fr[num]
             a_chunk == b_fr - a_fr
         IN  IF a_chunk = 0 THEN ScanFrames(fr, num + 1, start, count, res, zfill)
             ELSE IF num = Len(fr)
             THEN append(res, start, b_fr, a_chunk, count + 1, zfill)
             ELSE LET c_fr == fr[num + 1]
                      b_chunk == c_fr - b_fr
                  IN  IF a_chunk # b_chunk
                      THEN IF count + 1 = 2 /\ b_chunk = 1
                           THEN ScanFrames(fr, num + 1, b_fr, 1,
                                           append(res, start, start, 1, 1, zfill), zfill)
                           ELSE ScanFrames(fr, num + 1, c_fr, 1,
                                           append(res, start, b_fr, a_chunk, count + 1, zfill), zfill)
                      ELSE ScanFrames(fr, num + 1, start, count + 1, res, zfill)

\* framesToFrameRange(frames, sort, zfill): ret is the string returned, frames
\* the caller's list after the call (sorted in place), raised the exception
FramesToFrameRange(fr, sort, zfill) ==
    IF Len(fr) = 1
    THEN [ret |-> Str(fr[1]), frames |-> fr, raised |-> "none"]
    ELSE LET sorted == IF sort THEN Sorted(fr) ELSE fr
         IN  IF sorted = <<>>
             THEN [ret |-> None, frames |-> sorted, raised |-> "IndexError"]
             ELSE [ret |-> Join(ScanFrames(sorted, 1, sorted[1], 1, <<>>, zfill), <<",">>),
                   frames |-> sorted, raised |-> "none"]

RECURSIVE PadRanges(_, _)
PadRanges(ranges, zfill) ==
    IF ranges = <<>> THEN <<>>
    ELSE LET current_range == Head(ranges)
             padded == IF "-" \notin Elements(current_range)
                       THEN StrZfill(current_range, zfill)
                       ELSE StrZfill(Split(current_range, "-")[1], zfill) \o <<"-">>
                            \o StrZfill(Split(current_range, "-")[2], zfill)
         IN  <<padded>> \o PadRanges(Tail(ranges), zfill)

\* padFrameRange(frs, zfill)
PadFrameRange(frs, zfill) == Join(PadRanges(Split(frs, ","), zfill), <<",">>)

(***************************************************************************)
(* FrameSet methods.                                                       *)
(***************************************************************************)
RECURSIVE Gaps(_, _)
\* the loop of invertedFrameRange over the sorted frames, from index i on
Gaps(fr, i) ==
    IF i >= Len(fr) THEN <<>>
    ELSE (IF fr[i + 1] - fr[i] = 1 THEN <<>> ELSE XRange(fr[i] + 1, fr[i + 1], 1))
         \o Gaps(fr, i + 1)

\* FrameSet.invertedFrameRange(zfill)
InvertedRange(self, zfill) ==
    LET res == Gaps(SortedList(self.set), 1)
    IN  IF res = <<>> THEN <<>> ELSE FramesToFrameRange(res, TRUE, zfill).ret

\* the zfill values callers pass
Zfills == {0, 3}

\* the list indexes callers pass (negative indexes count from the end)
Indexes == -1..MaxFrame

\* the well-formed expressions a FrameSet is followed through its methods for
LifeExprs ==
    Tokens
    \cup { Join(<<a, b>>, <<",">>) : a \in Singles, b \in Singles }
    \cup { Join(<<a, b, c>>, <<",">>) : a \in Singles, b \in Singles, c \in Singles }
    \cup { Join(<<a, RangeToken(p[1], p[2])>>, <<",">>) : a \in Singles, p \in ForwardPairs }

InitLife ==
    /\ op = "FrameSet"
    /\ expr \in LifeExprs
    /\ args = <<expr>>
    /\ LET fs == NewFrameSet(expr)
       IN  /\ raised = fs.raised
           /\ frameSet = IF fs.raised = "none" THEN fs ELSE None
    /\ result = None
    /\ normalized = None
    /\ frames = <<>>
    /\ fileSeq = None

Returns(name, arguments, value) ==
    /\ op' = name
    /\ args' = arguments
    /\ raised' = "none"
    /\ result' = value

Raises(name, arguments, exception) ==
    /\ op' = name
    /\ args' = arguments
    /\ raised' = exception
    /\ result' = None

\* frameSet.index(frame)
Index(frame) ==
    /\ frameSet # None
    /\ IF frame \in Elements(frameSet.list)
       THEN Returns("index", <<frame>>, (CHOOSE i \in 1..Len(frameSet.list) :
                                 /\ frameSet.list[i] = frame
                                 /\ \A j \in 1..(i - 1) : frameSet.list[j] # frame) - 1)
       ELSE Raises("index", <<frame>>, "ValueError")
    /\ UNCHANGED <<expr, frameSet, normalized, frames, fileSeq>>

\* frameSet.frame(idx)
Frame(idx) ==
    /\ frameSet # None
    /\ LET n == Len(frameSet.list)
       IN  IF idx >= n \/ idx < 0 - n THEN Raises("frame", <<idx>>, "IndexError")
           ELSE Returns("frame", <<idx>>, frameSet.list[IF idx < 0 THEN n + idx + 1 ELSE idx + 1])
    /\ UNCHANGED <<expr, frameSet, normalized, frames, fileSeq>>

\* frameSet.hasFrame(frame)
HasFrame(frame) ==
    /\ frameSet # None
    /\ Returns("hasFrame", <<frame>>, frame \in frameSet.set)
    /\ UNCHANGED <<expr, frameSet, normalized, frames, fileSeq>>

\* frameSet.start()
Start ==
    /\ frameSet # None
    /\ IF frameSet.list = <<>> THEN Raises("start", <<>>, "IndexError")
       ELSE Returns("start", <<>>, frameSet.list[1])
    /\ UNCHANGED <<expr, frameSet, normalized, frames, fileSeq>>

\* frameSet.end()
End ==
    /\ frameSet # None
    /\ IF frameSet.list = <<>> THEN Raises("end", <<>>, "IndexError")
       ELSE Returns("end", <<>>, frameSet.list[Len(frameSet.list)])
    /\ UNCHANGED <<expr, frameSet, normalized, frames, fileSeq>>

\* len(frameSet)
Length ==
    /\ frameSet # None
    /\ Returns("len", <<>>, Len(frameSet.list))
    /\ UNCHANGED <<expr, frameSet, normalized, frames, fileSeq>>

\* list(frameSet)
Iterate ==
    /\ frameSet # None
    /\ Returns("iter", <<>>, frameSet.list)
    /\ UNCHANGED <<expr, frameSet, normalized, frames, fileSeq>>

\* frameSet.frameRange(zfill)
FrameRange(zfill) ==
    /\ frameSet # None
    /\ Returns("frameRange", <<zfill>>, PadFrameRange(frameSet.frange, zfill))
    /\ UNCHANGED <<expr, frameSet, normalized, frames, fileSeq>>

\* frameSet.invertedFrameRange(zfill)
InvertedFrameRange(zfill) ==
    /\ frameSet # None
    /\ Returns("invertedFrameRange", <<zfill>>, InvertedRange(frameSet, zfill))
    /\ UNCHANGED <<expr, frameSet, normalized, frames, fileSeq>>

\* self.normalize(): the call's outcome.  framesToFrameRange is handed
\* self.__list itself, so self.list is what its in-place sort leaves
NormalizeCall(self) ==
    LET r == FramesToFrameRange(self.list, TRUE, 0)
        n == IF r.raised = "none" THEN NewFrameSet(r.ret) ELSE None
    IN  [self |-> [self EXCEPT !.list = r.frames],
         raised |-> IF r.raised = "none" THEN n.raised ELSE r.raised,
         new |-> n]

\* frameSet.normalize()
Normalize ==
    /\ frameSet # None
    /\ LET c == NormalizeCall(frameSet)
       IN  /\ frameSet' = c.self
           /\ IF c.raised = "none"
              THEN Returns("normalize", <<>>, c.new) /\ normalized' = c.new
              ELSE Raises("normalize", <<>>, c.raised) /\ UNCHANGED normalized
    /\ UNCHANGED <<expr, frames, fileSeq>>

\* normalized.normalize(), for the FrameSet an earlier normalize() returned;
\* the caller keeps the new FrameSet in its place
NormalizeAgain ==
    /\ normalized # None
    /\ LET c == NormalizeCall(normalized)
       IN  IF c.raised = "none"
           THEN Returns("normalize.normalize", <<>>, c.new) /\ normalized' = c.new
           ELSE Raises("normalize.normalize", <<>>, c.raised) /\ normalized' = c.self
    /\ UNCHANGED <<expr, frameSet, frames, fileSeq>>

Next ==
    \/ \E f \in Nums : Index(f)
    \/ \E i \in Indexes : Frame(i)
    \/ \E f \in Nums : HasFrame(f)
    \/ Start
    \/ End
    \/ Length
    \/ Iterate
    \/ \E z \in Zfills : FrameRange(z)
    \/ \E z \in Zfills : InvertedFrameRange(z)
    \/ Normalize
    \/ NormalizeAgain

Spec == InitLife /\ [][Next]_vars

(***************************************************************************)
(* SpecCompact: framesToFrameRange on caller-owned lists.                  *)
(***************************************************************************)
Values == (0 - MaxNeg)..MaxValue

Reversed(s) == [i \in 1..Len(s) |-> s[Len(s) + 1 - i]]

\* the lists handed to framesToFrameRange: the values of a set in ascending
\* order, in descending order, and in ascending order with the last repeated
CompactLists ==
    { SortedList(S) : S \in SUBSET Values }
    \cup { Reversed(SortedList(S)) : S \in SUBSET Values }
    \cup { SortedList(S) \o <<CHOOSE m \in S : \A v \in S : v <= m>> : S \in (SUBSET Values) \ {{}} }

InitCompact ==
    /\ op = "init"
    /\ args = <<>>
    /\ raised = "none"
    /\ result = None
    /\ expr = <<>>
    /\ frameSet = None
    /\ normalized = None
    /\ frames \in CompactLists
    /\ fileSeq = None

\* the caller evaluates framesToFrameRange(frames, sort, zfill)
Compact(sort, zfill) ==
    /\ LET r == FramesToFrameRange(frames, sort, zfill)
       IN  /\ frames' = r.frames
           /\ raised' = r.raised
           /\ result' = r.ret
    /\ op' = "framesToFrameRange"
    /\ args' = <<sort, zfill>>
    /\ UNCHANGED <<expr, frameSet, normalized, fileSeq>>

NextCompact == \E sort \in BOOLEAN, zfill \in Zfills : Compact(sort, zfill)

SpecCompact == InitCompact /\ [][NextCompact]_vars

(***************************************************************************)
(* FileSequence.                                                           *)
(***************************************************************************)
\* _PADDING
PaddingWidth(c) == IF c = "#" THEN 4 ELSE 1

PaddingChars == {"#", "@"}

RECURSIVE SumWidths(_)
\* sum([_PADDING[c] for c in padding])
SumWidths(padding) ==
    IF padding = <<>> THEN 0
    ELSE PaddingWidth(Head(padding)) + SumWidths(Tail(padding))

\* the characters of [\:xy\-0-9,]
RangeChars == Elements(Digit) \cup {":", "x", "y", "-", ","}

RECURSIVE RunEnd(_, _, _)
\* the position after the longest run of characters of chars from i
RunEnd(s, i, chars) ==
    IF i <= Len(s) /\ s[i] \in chars THEN RunEnd(s, i + 1, chars) ELSE i

RECURSIVE LastIndexOf(_, _, _)
\* the last position of c in s[1..i], 0 when there is none
LastIndexOf(s, c, i) ==
    IF i = 0 THEN 0 ELSE IF s[i] = c THEN i ELSE LastIndexOf(s, c, i - 1)

\* (\.[^.]*$)|$ matched at position i of s
ExtensionMatches(s, i) ==
    \/ i = Len(s) + 1
    \/ s[i] = "." /\ \A j \in (i + 1)..Len(s) : s[j] # "."

\* ([\:xy\-0-9,]*)([\#\@]*)(?:(\.[^.]*$)|$) matched at position i of s: both
\* runs are greedy and giving a character back never lets the rest match
TailMatches(s, i) ==
    ExtensionMatches(s, RunEnd(s, RunEnd(s, i, RangeChars), PaddingChars))

\* None where the model holds a string
NoneStr == <<"None">>

\* _SEQ_PATTERN.match(sequence): the groups 1 to 5, NoneStr for a group that
\* took no part in the match
SeqMatch(sequence) ==
    LET slash == LastIndexOf(sequence, "/", Len(sequence))
        g1 == IF slash = 0 THEN NoneStr ELSE SubSeq(sequence, 1, slash)
    IN  IF slash = Len(sequence)
        THEN <<g1, NoneStr, NoneStr, NoneStr, NoneStr>>
        ELSE LET \* (.+?) takes the fewest characters that let the rest match
                 b == CHOOSE k \in (slash + 1)..Len(sequence) :
                          /\ TailMatches(sequence, k + 1)
                          /\ \A j \in (slash + 1)..(k - 1) : ~TailMatches(sequence, j + 1)
                 r == RunEnd(sequence, b + 1, RangeChars)
                 q == RunEnd(sequence, r, PaddingChars)
             IN  <<g1, SubSeq(sequence, slash + 1, b), SubSeq(sequence, b + 1, r - 1),
                   SubSeq(sequence, r, q - 1),
                   IF q = Len(sequence) + 1 THEN NoneStr ELSE SubSeq(sequence, q, Len(sequence))>>

\* FileSequence(sequence): the object built, with raised # "none" when
\* __init__ raises
NewFileSequence(sequence) ==
    LET m == SeqMatch(sequence)
        dir == IF m[1] = NoneStr THEN <<>> ELSE m[1]
        fs == IF m[3] # NoneStr /\ m[3] # <<>> THEN NewFrameSet(m[3]) ELSE None
    IN  IF fs # None /\ fs.raised # "none"
        THEN [raised |-> fs.raised]
        ELSE IF m[4] = NoneStr
        THEN \* iterating self.__padding, which is None
             [raised |-> "TypeError"]
        ELSE [raised |-> "none", dir |-> dir, basename |-> m[2], padding |-> m[4],
              frameSet |-> fs, ext |-> m[5], zfill |-> SumWidths(m[4])]

\* FileSequence.setDirname
setDirname(self, dirname) == [self EXCEPT !.dir = dirname]

\* FileSequence.setBasename
setBasename(self, base) == [self EXCEPT !.basename = base]

\* FileSequence.setPadding with self.__zfill left as it was
setPaddingKeepsZfill(self, padding) == [self EXCEPT !.padding = padding, !.raised = "none"]

\* FileSequence.setPadding: self after the call, self.raised the exception
setPadding(self, padding) ==
    IF Elements(padding) \subseteq PaddingChars
    THEN [self EXCEPT !.padding = padding, !.zfill = SumWidths(padding), !.raised = "none"]
    ELSE [self EXCEPT !.padding = padding, !.raised = "KeyError"]

\* FileSequence.setExtention
setExtention(self, ext) ==
    IF ext = <<>> THEN [self EXCEPT !.raised = "IndexError"]
    ELSE [self EXCEPT !.ext = IF ext[1] # "." THEN <<".">> \o ext ELSE ext,
                      !.raised = "none"]

\* FileSequence.setFrameSet
setFrameSet(self, fs) == [self EXCEPT !.frameSet = fs]

\* FileSequence.setFrameRange
setFrameRange(self, frange) ==
    LET fs == NewFrameSet(frange)
    IN  IF fs.raised # "none" THEN [self EXCEPT !.raised = fs.raised]
        ELSE [self EXCEPT !.frameSet = fs, !.raised = "none"]

\* the strings callers pass
Dirnames == {<<>>, <<"/", "d", "/">>}

Basenames == {<<"f">>, <<"f", ".">>}

Extensions == {<<>>, <<"e">>, <<".", "e">>}

Franges ==
    { RangeToken(1, 3), SingleToken(5), SteppedToken(1, 3, "x", 0), SteppedToken(1, 3, ":", 0),
      <<"1", "-">> }

FrameSets == {None, NewFrameSet(RangeToken(0, 2))}

\* the strings of at most MaxPadLen characters of alphabet
Strings(alphabet) == UNION { [1..n -> alphabet] : n \in 0..MaxPadLen }

Paddings == Strings(PaddingChars)

AnyPaddings == Strings(PaddingChars \cup {"%"})

\* the descriptors a FileSequence is constructed from
Descriptors ==
    { d \o b \o r \o p \o e :
        d \in Dirnames, b \in Basenames \cup {<<>>},
        r \in {<<>>, RangeToken(1, 3), <<"1", "-", "5", "-", "1", "0">>},
        p \in Paddings, e \in {<<>>, <<".", "e">>} }

InitSeq ==
    /\ op = "FileSequence"
    /\ \E d \in Descriptors :
          /\ args = <<d>>
          /\ LET q == NewFileSequence(d)
             IN  /\ raised = q.raised
                 /\ fileSeq = IF q.raised = "none" THEN q ELSE None
    /\ result = None
    /\ expr = <<>>
    /\ frameSet = None
    /\ normalized = None
    /\ frames = <<>>

\* the caller has called setter name with argument arg; after is what the
\* setter leaves of the object, after.raised the exception it raised
Called(name, arg, after) ==
    /\ op' = name
    /\ args' = <<arg>>
    /\ raised' = after.raised
    /\ fileSeq' = [after EXCEPT !.raised = "none"]

SetDirname(dirname) ==
    /\ fileSeq # None
    /\ Called("setDirname", dirname, setDirname(fileSeq, dirname))
    /\ UNCHANGED <<result, expr, frameSet, normalized, frames>>

SetBasename(base) ==
    /\ fileSeq # None
    /\ Called("setBasename", base, setBasename(fileSeq, base))
    /\ UNCHANGED <<result, expr, frameSet, normalized, frames>>

SetPadding(padding) ==
    /\ fileSeq # None
    /\ Called("setPadding", padding, setPadding(fileSeq, padding))
    /\ UNCHANGED <<result, expr, frameSet, normalized, frames>>

SetExtention(ext) ==
    /\ fileSeq # None
    /\ Called("setExtention", ext, setExtention(fileSeq, ext))
    /\ UNCHANGED <<result, expr, frameSet, normalized, frames>>

SetFrameSet(fs) ==
    /\ fileSeq # None
    /\ Called("setFrameSet", fs, setFrameSet(fileSeq, fs))
    /\ UNCHANGED <<result, expr, frameSet, normalized, frames>>

SetFrameRange(frange) ==
    /\ fileSeq # None
    /\ Called("setFrameRange", frange, setFrameRange(fileSeq, frange))
    /\ UNCHANGED <<result, expr, frameSet, normalized, frames>>

OtherSetters ==
    \/ \E d \in Dirnames : SetDirname(d)
    \/ \E b \in Basenames : SetBasename(b)
    \/ \E e \in Extensions : SetExtention(e)
    \/ \E f \in FrameSets : SetFrameSet(f)
    \/ \E f \in Franges : SetFrameRange(f)

\* setPadding is handed strings over '#' and '@' only
NextSeq == OtherSetters \/ \E p \in Paddings : SetPadding(p)

SpecSeq == InitSeq /\ [][NextSeq]_vars

\* setPadding is handed any string
NextSeqAny == OtherSetters \/ \E p \in AnyPaddings : SetPadding(p)

SpecSeqAny == InitSeq /\ [][NextSeqAny]_vars

(***************************************************************************)
(* Claims about FrameSet construction (SpecParse).                         *)
(***************************************************************************)
Constructed == op = "FrameSet" /\ raised = "none"

\* the frames one token denotes, in its natural enumeration order
TokenFrames(groups) ==
    IF Len(groups) = 2 THEN XRange(Int_(groups[1]), Int_(groups[2]) + 1, 1)
    ELSE IF Len(groups) = 1 THEN <<Int_(groups[1])>>
    ELSE LET s == Int_(groups[1])
             e == Int_(groups[2])
             c == Int_(groups[4])
             Pass[k \in 0..c] == IF k = 0 THEN <<>> ELSE XRange(s, e + 1, k) \o Pass[k - 1]
         IN  IF groups[3] = <<"x">> THEN XRange(s, e + 1, c)
             ELSE IF groups[3] = <<":">> THEN Pass[c]
             ELSE SelectSeq(XRange(s, e + 1, 1), LAMBDA f : (f - s) % c # 0)

RECURSIVE RawFrames(_)
\* the frames of all tokens read left to right, repetitions kept
RawFrames(parts) ==
    IF parts = <<>> THEN <<>>
    ELSE TokenFrames(FirstMatch(Head(parts))) \o RawFrames(Tail(parts))

RECURSIVE FirstOccurrences(_, _)
\* s with every repetition of an earlier element removed
FirstOccurrences(s, seen) ==
    IF s = <<>> THEN <<>>
    ELSE IF Head(s) \in seen THEN FirstOccurrences(Tail(s), seen)
         ELSE <<Head(s)>> \o FirstOccurrences(Tail(s), seen \cup {Head(s)})

NoDuplicates(s) == \A i, j \in 1..Len(s) : s[i] = s[j] => i = j

\* C2: every constructed FrameSet has a duplicate-free ordered list with the
\* same elements and cardinality as its membership set, each frame at the
\* position of its first occurrence reading the tokens left to right.
C2_UniqueFirstOccurrence ==
    Constructed =>
        /\ NoDuplicates(frameSet.list)
        /\ Elements(frameSet.list) = frameSet.set
        /\ Len(frameSet.list) = Cardinality(frameSet.set)
        /\ frameSet.list = FirstOccurrences(RawFrames(Split(expr, ",")), {})

\* "0-2,1-3" (the shape of "1-5,3-7") holds 4 frames, not 6
C2_Witness ==
    /\ Constructed
    /\ expr = Join(<<RangeToken(0, 2), RangeToken(1, 3)>>, <<",">>)
    /\ frameSet.list = <<0, 1, 2, 3>>
    /\ Len(RawFrames(Split(expr, ","))) = 6

\* expr holds a stepped token whose chunk is 0
HasZeroChunk(e) ==
    \E s \in Nums, t \in Nums, m \in Modifiers :
        SteppedToken(s, t, m, 0) \in Elements(Split(e, ","))

\* C4: parsing a range that holds a stepped token with chunk 0 raises
\* ParseException, for each of x, y and :, and returns no FrameSet.
C4_ZeroChunkRaisesParseException ==
    (op = "FrameSet" /\ HasZeroChunk(expr)) =>
        (raised = "ParseException" /\ frameSet = None)

\* the expression start-endxchunk,start-endx(chunk-1),...,start-endx1
RECURSIVE StaggerExpansion(_, _, _)
StaggerExpansion(s, e, c) ==
    IF c = 1 THEN SteppedToken(s, e, "x", 1)
    ELSE SteppedToken(s, e, "x", c) \o <<",">> \o StaggerExpansion(s, e, c - 1)

IsPrefix(p, s) == Len(p) <= Len(s) /\ SubSeq(s, 1, Len(p)) = p

\* C9: for start <= end and chunk >= 1, FrameSet("start-end:chunk") has the
\* ordered frames of FrameSet("start-endxchunk,...,start-endx1"): every
\* integer of [start, end], those of the coarsest stride first.
C9_StaggeredFill ==
    op = "FrameSet" =>
        \A s \in Nums, e \in Nums, c \in 1..MaxChunk :
            (s <= e /\ expr = SteppedToken(s, e, ":", c)) =>
                /\ raised = "none"
                /\ frameSet.list = NewFrameSet(StaggerExpansion(s, e, c)).list
                /\ frameSet.set = s..e
                /\ IsPrefix(XRange(s, e + 1, c), frameSet.list)

\* "-1-3:2" enumerates -1, 1, 3 and then 0, 2
C9_Witness ==
    /\ Constructed
    /\ expr = SteppedToken(-1, 3, ":", 2)
    /\ frameSet.list = <<-1, 1, 3, 0, 2>>

(***************************************************************************)
(* Claims about framesToFrameRange (SpecCompact).                          *)
(***************************************************************************)
\* C1: for every non-empty list of distinct integers, parsing the string
\* framesToFrameRange(values, sort=True, zfill=0) returns as a FrameSet
\* yields exactly the input values, in ascending order.
C1_CompactThenParseIsIdentity ==
    (op = "framesToFrameRange" /\ args = <<TRUE, 0>> /\ frames # <<>> /\ NoDuplicates(frames)) =>
        /\ raised = "none"
        /\ NewFrameSet(result).raised = "none"
        /\ NewFrameSet(result).list = SortedList(Elements(frames))

IsAscending(s) == \A i \in 1..(Len(s) - 1) : s[i] < s[i + 1]

\* v and w are neighbours in the ascending list s
Adjacent(s, v, w) == \E i \in 1..(Len(s) - 1) : s[i] = v /\ s[i + 1] = w

\* the piece is rendered the way the run of s it covers requires
PieceShape(piece, s) ==
    LET g == FirstMatch(piece)
    IN  /\ g # NoMatch
        /\ Len(g) = 1 => Int_(g[1]) \in Elements(s)
        /\ Len(g) = 2 =>
              LET a == Int_(g[1])
                  b == Int_(g[2])
              IN  /\ b - a >= 2
                  /\ \A v \in a..(b - 1) : Adjacent(s, v, v + 1)
        /\ Len(g) = 4 =>
              LET a == Int_(g[1])
                  b == Int_(g[2])
                  k == Int_(g[4])
              IN  /\ g[3] = <<"x">>
                  /\ k > 1
                  /\ (b - a) % k = 0
                  /\ (b - a) \div k >= 2
                  /\ \A j \in 0..(((b - a) \div k) - 1) : Adjacent(s, a + j * k, a + (j + 1) * k)

\* C8: for a sorted list of at least two distinct integers every piece of the
\* output has the shape of the run it covers: a bare number is a frame of
\* the list; "a-b" covers more than two frames with difference 1 (a pair is
\* never a dash range); "a-bxk" covers more than two frames with constant
\* difference k > 1.
C8_PieceShapes ==
    (op = "framesToFrameRange" /\ raised = "none" /\ Len(frames) >= 2 /\ IsAscending(frames)) =>
        \A piece \in Elements(Split(result, ",")) : PieceShape(piece, frames)

\* -2,-1 is rendered as a pair and 1,3,5 as a stepped range
C8_Witness ==
    /\ op = "framesToFrameRange"
    /\ frames = <<-2, -1, 1, 3, 5>>
    /\ result = <<"-", "2", ",", "-", "1", ",", "1", "-", "5", "x", "2">>

(***************************************************************************)
(* Claims about the FrameSet methods (Spec).                               *)
(***************************************************************************)
\* the integers strictly between the least and the greatest frame of S that
\* are not in S
Missing(S) ==
    IF S = {} THEN {}
    ELSE LET lo == CHOOSE a \in S : \A b \in S : a <= b
             hi == CHOOSE a \in S : \A b \in S : b <= a
         IN  (lo..hi) \ S

\* C3: invertedFrameRange() is "" for a FrameSet whose sorted frames are
\* contiguous; otherwise the returned range denotes exactly the integers
\* between the least and greatest frame that are not members, each once.
C3_ComplementLaw ==
    (op = "invertedFrameRange" /\ raised = "none") =>
        IF Missing(frameSet.set) = {} THEN result = <<>>
        ELSE /\ NewFrameSet(result).raised = "none"
             /\ Elements(RawFrames(Split(result, ","))) = Missing(frameSet.set)
             /\ NoDuplicates(RawFrames(Split(result, ",")))

\* C5: a FrameSet is immutable after construction: no call of its methods
\* changes the receiver's ordered frame sequence.
C5_ReceiverUnchanged ==
    [][frameSet # None => frameSet'.list = frameSet.list]_vars

\* C6: normalize is idempotent: normalizing a FrameSet that normalize()
\* returned yields the same range string and the same ordered frames.
C6_NormalizeIdempotent ==
    [][(op' = "normalize.normalize" /\ raised' = "none") =>
          (normalized'.frange = normalized.frange /\ normalized'.list = normalized.list)]_vars

\* normalize().normalize() of "-2-3:2" is again "-2-3"
C6_Witness ==
    /\ op = "normalize.normalize"
    /\ raised = "none"
    /\ expr = SteppedToken(-2, 3, ":", 2)
    /\ normalized.frange = RangeToken(-2, 3)
    /\ normalized.list = <<-2, -1, 0, 1, 2, 3>>

(***************************************************************************)
(* Claims about the FileSequence setters (SpecSeq, SpecSeqAny).            *)
(***************************************************************************)
Count(s, c) == Cardinality({ i \in 1..Len(s) : s[i] = c })

\* C7: in every state reached by parsing a descriptor and calling setters
\* (setPadding with strings over '#' and '@'), zfill is 4 times the number
\* of '#' plus the number of '@' in padding, and a setter other than
\* setPadding leaves padding and zfill unchanged.
C7_PadWidth ==
    /\ [](fileSeq # None =>
            fileSeq.zfill = 4 * Count(fileSeq.padding, "#") + Count(fileSeq.padding, "@"))
    /\ [][(fileSeq # None /\ op' # "setPadding") =>
            (fileSeq'.padding = fileSeq.padding /\ fileSeq'.zfill = fileSeq.zfill)]_vars

\* setPadding("@#") has set the width to 5
C7_Witness ==
    /\ op = "setPadding"
    /\ args = <<(<<"@", "#">>)>>
    /\ fileSeq.padding = <<"@", "#">>
    /\ fileSeq.zfill = 5

\* C10: a call of setPadding, setExtention or setFrameRange that raises
\* leaves dirname, basename, padding, zfill, extension and frame set as
\* they were before the call.
C10_FailedSetterChangesNothing ==
    [][(fileSeq # None /\ op' \in {"setPadding", "setExtention", "setFrameRange"}
          /\ raised' # "none") => fileSeq' = fileSeq]_vars

=============================================================================
